---- MODULE Spec2Model ----
(***************************************************************************)
(* Hash-to-curve for BLS12-381 G1 (src/src/bls381g1.rs): SSWU map onto the *)
(* auxiliary curve E', 11-isogeny iso_map onto E, cofactor clearing, and   *)
(* the four facade operations of Bls12381G1Sswu.                           *)
(*                                                                         *)
(* TLC computes with 32-bit integers, so the 381-bit field is instantiated *)
(* by a small field with the same structure.  Every constant below is the  *)
(* value that the relation defining the source's constant gives over that  *)
(* field:                                                                  *)
(*   MODULUS  p = 331: p = 3 mod 4, p = 1 mod 3, p = 1 mod 11 (as the      *)
(*            source's p), and E : y^2 = x^3 + 4 has 3 * 11^2 points with  *)
(*            E[11] rational (the source's E has h * r points, 11^2 | h)   *)
(*   PM1DIV2  (p - 1) / 2        SQRT_C1  (p + 1) / 4                      *)
(*   C1       -ISO_B / ISO_A     C2       -1 / Z                           *)
(*   H_EFF    the exponent of the cofactor part of E(Fp)                   *)
(*   ISO_A, ISO_B, X_NUM, X_DEN, Y_NUM, Y_DEN: the curve E' and the        *)
(*            11-isogeny E' -> E obtained by Velu's formulas from the      *)
(*            rational subgroup of order 11 of E', followed by the scaling *)
(*            (x, y) -> (x / 11^2, y / 11^3); this is how the source's     *)
(*            tables arise (12, 11, 16 and 16 coefficients, X_DEN and      *)
(*            Y_DEN monic).                                                *)
(*   Z        11, as in the source's suite (a non-square with the SSWU     *)
(*            side conditions).                                            *)
(* Bytes keep their width (8 bits); the expansion length L is 2 bytes      *)
(* (ceil((9 + 7) / 8)) in place of 64.                                     *)
(***************************************************************************)
EXTENDS Integers, Sequences, FiniteSets, TLC

(* ------------------------------------------------------------------ *)
(* Constants of bls381g1.rs                                            *)
(* ------------------------------------------------------------------ *)

L == 2

TwoL == 4

MODULUS == 331

PM1DIV2 == 165

H_EFF == 11

C1 == 201

C2 == 30

SQRT_C1 == 83

(* crate::isogeny::bls381g1 *)
Z == 11

ISO_A == 239

ISO_B == 287

X_NUM == <<49, 171, 46, 75, 215, 177, 241, 17, 109, 171, 146, 238>>

X_DEN == <<167, 206, 10, 224, 92, 204, 262, 147, 55, 123, 1>>

Y_NUM == <<101, 171, 159, 209, 152, 93, 246, 74, 166, 203, 19, 263, 133, 209, 50, 142>>

Y_DEN == <<180, 8, 199, 163, 109, 10, 183, 292, 68, 128, 32, 46, 144, 253, 19, 1>>

(* the curve primitive's rom: E : y^2 = x^3 + CURVE_B, subgroup order *)
CURVE_B == 4

CURVE_ORDER == 3

(* ------------------------------------------------------------------ *)
(* Field primitive (BIG): values are integers, reduced where the       *)
(* primitive reduces.                                                  *)
(* ------------------------------------------------------------------ *)

rmod(x, m) == x % m

modmul(a, b, m) == ((a % m) * (b % m)) % m

modsqr(a, m) == ((a % m) * (a % m)) % m

modneg(a, m) == (m - (a % m)) % m

RECURSIVE powmod(_, _, _)
powmod(x, e, m) ==
    IF e = 0 THEN 1 % m
    ELSE LET h == powmod(x, e \div 2, m)
             s == modsqr(h, m)
         IN IF e % 2 = 1 THEN modmul(s, x, m) ELSE s

(* inv0: 0 for 0, else the inverse *)
invmodp(x, m) == IF x % m = 0 THEN 0 ELSE powmod(x, m - 2, m)

iszilch(x) == x = 0

inc(x, k) == x + k

cmove(dst_, src, d) == IF d = 1 THEN src ELSE dst_

(* ------------------------------------------------------------------ *)
(* Curve primitive (ECP): affine points of E and the identity.         *)
(* ------------------------------------------------------------------ *)

INF == [inf |-> TRUE, x |-> 0, y |-> 0]

Affine(x, y) == [inf |-> FALSE, x |-> x, y |-> y]

ECP_rhs(x) == (modmul(modsqr(x, MODULUS), x, MODULUS) + CURVE_B) % MODULUS

(* ECP::new_bigs: the point (x, y) when it is on E, the identity otherwise *)
ECP_new_bigs(x, y) ==
    IF modsqr(y, MODULUS) = ECP_rhs(x % MODULUS)
    THEN Affine(x % MODULUS, y % MODULUS)
    ELSE INF

ECP_add(P, Q) ==
    IF P.inf THEN Q
    ELSE IF Q.inf THEN P
    ELSE IF P.x = Q.x /\ (P.y + Q.y) % MODULUS = 0 THEN INF
    ELSE LET lam == IF P.x = Q.x
                    THEN modmul(3 * modsqr(P.x, MODULUS),
                                invmodp(2 * P.y, MODULUS), MODULUS)
                    ELSE modmul(Q.y - P.y + MODULUS,
                                invmodp(Q.x - P.x + MODULUS, MODULUS), MODULUS)
             x3 == (modsqr(lam, MODULUS) + 2 * MODULUS - P.x - Q.x) % MODULUS
             y3 == (modmul(lam, P.x - x3 + MODULUS, MODULUS) + MODULUS - P.y) % MODULUS
         IN Affine(x3, y3)

RECURSIVE ECP_mul(_, _)
ECP_mul(P, e) ==
    IF e = 0 \/ P.inf THEN INF
    ELSE LET h == ECP_mul(P, e \div 2)
             d == ECP_add(h, h)
         IN IF e % 2 = 1 THEN ECP_add(d, P) ELSE d

(* ------------------------------------------------------------------ *)
(* bls381g1.rs: the map                                                *)
(* ------------------------------------------------------------------ *)

(* variant: the exponent of is_square in place of (p + 1) / 4 *)
sqrt_3mod4_wrong_exponent(x) == powmod(x, PM1DIV2, MODULUS)

sqrt_3mod4(x) == powmod(x, SQRT_C1, MODULUS)

(* BIG.w of a reduced value, least significant limb first (three limbs of
   four bits hold a field element); is_square reads them one by one *)
Limbs(t) == <<t % 16, (t \div 16) % 16, t \div 256>>

RECURSIVE OrLimbs(_, _)
OrLimbs(w, i) == IF i > Len(w) THEN 0 ELSE IF w[i] # 0 THEN 1 ELSE OrLimbs(w, i + 1)

(* variant: only the value 1 accepted *)
is_square_rejects_zero(x) ==
    LET t == powmod(x, PM1DIV2, MODULUS)
        w == Limbs(t)
        sum == OrLimbs(w, 2)
    IN sum = 0 /\ w[1] = 1

is_square(x) ==
    LET t == powmod(x, PM1DIV2, MODULUS)
        w == Limbs(t)
        sum == OrLimbs(w, 2)
    IN sum = 0 /\ (w[1] = 0 \/ w[1] = 1)

(* variant: (p - 1) / 2 itself on the upper side *)
sgn0_ge(x) == IF x >= PM1DIV2 THEN "Less" ELSE "Greater"

sgn0(x) == IF x > PM1DIV2 THEN "Less" ELSE "Greater"

(* variant: the zero test taken after x1 = x1 + 1 *)
swu_x1_tests_after_inc(t) ==
    LET e1 == IF iszilch(inc(t, 1)) THEN 1 ELSE 0
    IN [e1 |-> e1, x1 |-> modmul(cmove(inc(t, 1), C2, e1), C1, MODULUS)]

(* map_to_curve_simple_swu: e1, x1 from t = inv0(tv1 + tv2) *)
swu_x1(t) ==
    LET e1 == IF iszilch(t) THEN 1 ELSE 0
    IN [e1 |-> e1, x1 |-> modmul(cmove(inc(t, 1), C2, e1), C1, MODULUS)]

(* variant: the two cmove calls with their operands exchanged *)
swu_select_exchanged(x1, gx1, x2, gx2) ==
    LET e2 == IF is_square(gx1) THEN 1 ELSE 0
    IN [e2 |-> e2, x |-> cmove(x1, x2, e2), y2 |-> cmove(gx1, gx2, e2)]

(* map_to_curve_simple_swu: e2, x, y2 from the two candidates *)
swu_select(x1, gx1, x2, gx2) ==
    LET e2 == IF is_square(gx1) THEN 1 ELSE 0
    IN [e2 |-> e2, x |-> cmove(x2, x1, e2), y2 |-> cmove(gx2, gx1, e2)]

(* variant: y kept when the signs differ *)
swu_sign_exchanged(u, y) ==
    LET e3 == IF sgn0(u) = sgn0(y) THEN 1 ELSE 0
    IN [e3 |-> e3, y_neg |-> cmove(y, modneg(y, MODULUS), e3)]

(* map_to_curve_simple_swu: e3, y_neg from u and the root *)
swu_sign(u, y) ==
    LET e3 == IF sgn0(u) = sgn0(y) THEN 1 ELSE 0
    IN [e3 |-> e3, y_neg |-> cmove(modneg(y, MODULUS), y, e3)]

(* every local of map_to_curve_simple_swu, by its name in the source *)
swu_locals(u) ==
    LET tv1 == modmul(Z, modsqr(u, MODULUS), MODULUS)
        tv2 == modsqr(tv1, MODULUS)
        sum == rmod(tv1 + tv2, MODULUS)
        t   == invmodp(sum, MODULUS)
        e1  == swu_x1(t).e1
        x1  == swu_x1(t).x1
        gx1 == rmod(modmul(rmod(modsqr(x1, MODULUS) + ISO_A, MODULUS), x1, MODULUS)
                    + ISO_B, MODULUS)
        x2  == modmul(tv1, x1, MODULUS)
        tv3 == modmul(tv1, tv2, MODULUS)
        gx2 == modmul(gx1, tv3, MODULUS)
        sel == swu_select(x1, gx1, x2, gx2)
        e2  == sel.e2
        x   == sel.x
        y2  == sel.y2
        y   == sqrt_3mod4(y2)
        e3  == swu_sign(u, y).e3
        y_neg == swu_sign(u, y).y_neg
    IN [tv1 |-> tv1, tv2 |-> tv2, sum |-> sum, t |-> t, e1 |-> e1, x1 |-> x1,
        gx1 |-> gx1, x2 |-> x2, gx2 |-> gx2, e2 |-> e2, x |-> x, y2 |-> y2,
        y |-> y, e3 |-> e3, y_neg |-> y_neg]

map_to_curve_simple_swu(u) == LET s == swu_locals(u) IN <<s.x, s.y_neg>>

RECURSIVE iso_map_helper_from(_, _, _, _)
iso_map_helper_from(x, k, i, new_x) ==
    IF i > Len(k) THEN new_x
    ELSE iso_map_helper_from(x, k, i + 1,
             rmod(new_x + modmul(x[i], k[i], MODULUS), MODULUS))

(* variant: the loop stops one coefficient short *)
iso_map_helper_stops_short(x, k) ==
    iso_map_helper_from(x, SubSeq(k, 1, Len(k) - 1), 1, 0)

iso_map_helper(x, k) == iso_map_helper_from(x, k, 1, 0)

RECURSIVE x_values_from(_, _)
x_values_from(x_prime, xs) ==
    IF Len(xs) = 16 THEN xs
    ELSE x_values_from(x_prime,
             Append(xs, IF Len(xs) = 1 THEN x_prime
                        ELSE IF Len(xs) = 2 THEN modsqr(x_prime, MODULUS)
                        ELSE modmul(xs[Len(xs)], x_prime, MODULUS)))

iso_map_locals(x_prime, y_prime) ==
    LET x_values == x_values_from(x_prime, <<1>>)
        x_num == iso_map_helper(x_values, X_NUM)
        x_den == iso_map_helper(x_values, X_DEN)
        y_num == iso_map_helper(x_values, Y_NUM)
        y_den == iso_map_helper(x_values, Y_DEN)
        x == modmul(x_num, invmodp(x_den, MODULUS), MODULUS)
        y == modmul(modmul(y_num, invmodp(y_den, MODULUS), MODULUS), y_prime, MODULUS)
    IN [x_values |-> x_values, x_num |-> x_num, x_den |-> x_den, y_num |-> y_num,
        y_den |-> y_den, x |-> x, y |-> y]

(* variant: the last modmul by y_prime left out *)
iso_map_drops_y_prime(x_prime, y_prime) ==
    LET m == iso_map_locals(x_prime, y_prime)
    IN ECP_new_bigs(m.x, modmul(m.y_num, invmodp(m.y_den, MODULUS), MODULUS))

iso_map(x_prime, y_prime) ==
    LET m == iso_map_locals(x_prime, y_prime) IN ECP_new_bigs(m.x, m.y)

map_to_curve(u) ==
    LET xy == map_to_curve_simple_swu(u) IN iso_map(xy[1], xy[2])

(* variant: the point returned as it is *)
clear_cofactor_identity(p) == p

clear_cofactor(p) == ECP_mul(p, H_EFF)

(* field_elem_from_larger_bytearray: the DBIG accumulator, then dmod *)
RECURSIVE dbig_from(_, _, _)
dbig_from(random_bytes, i, d) ==
    IF i > Len(random_bytes) THEN d
    ELSE dbig_from(random_bytes, i + 1, d * 256 + random_bytes[i])

field_elem_from_larger_bytearray(random_bytes) ==
    dbig_from(random_bytes, 1, 0) % MODULUS

(* ------------------------------------------------------------------ *)
(* crate::expand_message_xmd / expand_message_xof and the hash         *)
(* primitives they drive.  The digest and the XOF are stand-ins with   *)
(* one output byte per block (b_in_bytes = 1, r_in_bytes = 2): fixed   *)
(* functions of their input, which is all the facade relies on.        *)
(* ------------------------------------------------------------------ *)

RECURSIVE absorb(_, _, _, _)
absorb(s, i, h, k) ==
    IF i > Len(s) THEN h
    ELSE absorb(s, i + 1, ((h + s[i] + i) * k + 13) % 256, k)

digest(s) == absorb(s, 1, 99, 167)

RECURSIVE squeeze(_, _, _)
squeeze(h, n, out) ==
    IF n = 0 THEN out
    ELSE LET g == (h * 101 + 57) % 256
         IN squeeze(g, n - 1, Append(out, (g * 7 + (g \div 16)) % 256))

xof_read(s, n) == squeeze(absorb(s, 1, 31, 77), n, <<>>)

RECURSIVE xor8(_, _, _)
xor8(a, b, bits) ==
    IF bits = 0 THEN 0
    ELSE ((a + b) % 2) + 2 * xor8(a \div 2, b \div 2, bits - 1)

I2OSP(v, n) == [i \in 1..n |-> (v \div (256 ^ (n - i))) % 256]

DST_prime(dst_) == dst_ \o I2OSP(Len(dst_), 1)

Ok(v) == [ok |-> TRUE, val |-> v, err |-> "none"]

Err(e) == [ok |-> FALSE, val |-> <<>>, err |-> e]

RECURSIVE xmd_blocks(_, _, _, _, _, _)
xmd_blocks(b_0, b_prev, i, ell, dstp, out) ==
    IF i > ell THEN out
    ELSE LET b_i == digest(<<xor8(b_prev, b_0, 8)>> \o I2OSP(i, 1) \o dstp)
         IN xmd_blocks(b_0, b_i, i + 1, ell, dstp, Append(out, b_i))

expand_message_xmd(msg_, dst_, len_in_bytes) ==
    LET ell == len_in_bytes  \* ceil(len_in_bytes / b_in_bytes), b_in_bytes = 1
    IN IF Len(dst_) > 255 THEN Err("InvalidDst")
       ELSE IF ell > 255 \/ len_in_bytes > 65535 THEN Err("InvalidExpansionLength")
       ELSE LET dstp == DST_prime(dst_)
                b_0 == digest(<<0, 0>> \o msg_ \o I2OSP(len_in_bytes, 2)
                              \o I2OSP(0, 1) \o dstp)
                b_1 == digest(<<b_0>> \o I2OSP(1, 1) \o dstp)
            IN Ok(SubSeq(xmd_blocks(b_0, b_1, 2, ell, dstp, <<b_1>>), 1, len_in_bytes))

expand_message_xof(msg_, dst_, len_in_bytes) ==
    IF Len(dst_) > 255 THEN Err("InvalidDst")
    ELSE Ok(xof_read(msg_ \o I2OSP(len_in_bytes, 2) \o DST_prime(dst_), len_in_bytes))

(* ------------------------------------------------------------------ *)
(* bls381g1.rs: hash_to_field                                          *)
(* ------------------------------------------------------------------ *)

(* what follows the `?` in the _nu functions *)
field_of_expansion_nu(random_bytes) ==
    <<field_elem_from_larger_bytearray(random_bytes)>>

(* variant: the two halves taken in the other order *)
field_of_expansion_ro_swapped(random_bytes) ==
    <<field_elem_from_larger_bytearray(SubSeq(random_bytes, L + 1, Len(random_bytes))),
      field_elem_from_larger_bytearray(SubSeq(random_bytes, 1, L))>>

(* what follows the `?` in the _ro functions *)
field_of_expansion_ro(random_bytes) ==
    <<field_elem_from_larger_bytearray(SubSeq(random_bytes, 1, L)),
      field_elem_from_larger_bytearray(SubSeq(random_bytes, L + 1, Len(random_bytes)))>>

(* variant: the error of the expansion replaced by the element 0 *)
hash_to_field_xmd_nu_or_zero(msg_, dst_) ==
    LET r == expand_message_xmd(msg_, dst_, L)
    IN [res |-> IF r.ok THEN Ok(field_of_expansion_nu(r.val)) ELSE Ok(<<0>>),
        requested |-> <<<<"xmd", L>>>>]

(* the result, and the expansions requested: <<kind, length>> each *)
hash_to_field_xmd_nu(msg_, dst_) ==
    LET r == expand_message_xmd(msg_, dst_, L)
    IN [res |-> IF r.ok THEN Ok(field_of_expansion_nu(r.val)) ELSE Err(r.err),
        requested |-> <<<<"xmd", L>>>>]

hash_to_field_xmd_ro(msg_, dst_) ==
    LET r == expand_message_xmd(msg_, dst_, TwoL)
    IN [res |-> IF r.ok THEN Ok(field_of_expansion_ro(r.val)) ELSE Err(r.err),
        requested |-> <<<<"xmd", TwoL>>>>]

hash_to_field_xof_nu(msg_, dst_) ==
    LET r == expand_message_xof(msg_, dst_, L)
    IN [res |-> IF r.ok THEN Ok(field_of_expansion_nu(r.val)) ELSE Err(r.err),
        requested |-> <<<<"xof", L>>>>]

hash_to_field_xof_ro(msg_, dst_) ==
    LET r == expand_message_xof(msg_, dst_, TwoL)
    IN [res |-> IF r.ok THEN Ok(field_of_expansion_ro(r.val)) ELSE Err(r.err),
        requested |-> <<<<"xof", TwoL>>>>]

(* ------------------------------------------------------------------ *)
(* Inputs                                                              *)
(* ------------------------------------------------------------------ *)

(* "as", "ap": the messages the facade is called with *)
Msgs == {<<97, 115>>, <<97, 112>>}

(* and "", "abc" for hash_to_field on its own *)
FieldMsgs == Msgs \cup {<<>>, <<97, 98, 99>>}

(* two tags a suite is built from, and one of 256 bytes *)
DSTS == {<<82, 79, 95>>, <<78, 85, 95>>, [i \in 1..256 |-> 81]}

ByteSample == {0, 1, 75, 255}

(* ------------------------------------------------------------------ *)
(* State                                                               *)
(* ------------------------------------------------------------------ *)

VARIABLES
    dst,      \* Bls12381G1Sswu.dst
    dst0,     \* the tag the suite was constructed with
    pc,       \* per caller: where its facade call stands
    call,     \* per caller: the facade method and the message
    loc,      \* per caller: the locals u, q0, q1 of the call
    steps,    \* per caller: the functions the call has run, in order
    ret,      \* per caller: the value the call returns
    first,    \* per method and message: what its first call returned
    ncalls,   \* calls made so far
    fstage, fin, fmsg, fus, fu, fxy, fq, fpt, fsgn,  \* the functions on their own
    floc      \* the locals of the function that ran last

svars == <<dst, dst0, pc, call, loc, steps, ret, first, ncalls>>

fvars == <<fstage, fin, fmsg, fus, fu, fxy, fq, fpt, fsgn, floc>>

vars == <<svars, fvars>>

(* ------------------------------------------------------------------ *)
(* The functions on their own: an input is drawn, the functions are    *)
(* applied along the pipeline's data flow.                             *)
(* ------------------------------------------------------------------ *)

NoLocals == [fn |-> "none"]

Modes == {"xmd_nu", "xmd_ro", "xof_nu", "xof_ro"}

FIdle ==
    /\ fstage = "none" /\ fin = <<>> /\ fmsg = <<>> /\ fus = <<>> /\ fu = 0
    /\ fxy = <<0, 0>> /\ fq = INF /\ fpt = INF /\ fsgn = "none"
    /\ floc = NoLocals

SIdle ==
    /\ dst = <<>> /\ dst0 = <<>> /\ pc = <<>> /\ call = <<>> /\ loc = <<>>
    /\ steps = <<>> /\ ret = <<>> /\ first = <<>> /\ ncalls = 0

FInit ==
    /\ SIdle
    /\ fmsg = <<>> /\ fus = <<>> /\ fu = 0
    /\ fxy = <<0, 0>> /\ fq = INF /\ fpt = INF /\ fsgn = "none"
    /\ floc = NoLocals
    /\ \/ fstage = "bytes" /\ fin \in [1..L -> 0..255]
       \/ fstage = "bytes" /\ fin \in [1..TwoL -> ByteSample]
       \/ fstage = "msg" /\ fin \in {<<m, d, k>> : m \in FieldMsgs, d \in DSTS, k \in Modes}

(* field_elem_from_larger_bytearray on an expansion of L bytes, and on the
   two halves of one of 2L bytes *)
FFieldElem ==
    /\ fstage = "bytes"
    /\ fstage' = "reduced"
    /\ fus' = IF Len(fin) = L THEN field_of_expansion_nu(fin)
              ELSE field_of_expansion_ro(fin)
    /\ UNCHANGED <<fin, fmsg, fu, fxy, fq, fpt, fsgn, floc, svars>>

(* hash_to_field_* on a message and a tag *)
FHashToField ==
    /\ fstage = "msg"
    /\ fstage' = "hashed"
    /\ fmsg' = CASE fin[3] = "xmd_nu" -> hash_to_field_xmd_nu(fin[1], fin[2])
                 [] fin[3] = "xmd_ro" -> hash_to_field_xmd_ro(fin[1], fin[2])
                 [] fin[3] = "xof_nu" -> hash_to_field_xof_nu(fin[1], fin[2])
                 [] OTHER -> hash_to_field_xof_ro(fin[1], fin[2])
    /\ UNCHANGED <<fin, fus, fu, fxy, fq, fpt, fsgn, floc, svars>>

(* a field element leaves hash_to_field; the byte buffer is dropped *)
FReturnU ==
    /\ fstage = "reduced"
    /\ \E i \in 1..Len(fus) : fu' = fus[i]
    /\ fstage' = "u"
    /\ fin' = <<>>
    /\ fus' = <<>>
    /\ UNCHANGED <<fmsg, fxy, fq, fpt, fsgn, floc, svars>>

FSgn0 ==
    /\ fstage = "u"
    /\ fstage' = "sign"
    /\ fsgn' = sgn0(fu)
    /\ UNCHANGED <<fin, fmsg, fus, fu, fxy, fq, fpt, floc, svars>>

FIsSquare ==
    /\ fstage = "u"
    /\ fstage' = "square"
    /\ floc' = [fn |-> "is_square", l |-> [res |-> is_square(fu)]]
    /\ UNCHANGED <<fin, fmsg, fus, fu, fxy, fq, fpt, fsgn, svars>>

FSimpleSwu ==
    /\ fstage = "u"
    /\ fstage' = "xy"
    /\ fxy' = map_to_curve_simple_swu(fu)
    /\ floc' = [fn |-> "map_to_curve_simple_swu", l |-> swu_locals(fu)]
    /\ UNCHANGED <<fin, fmsg, fus, fu, fq, fpt, fsgn, svars>>

FIsoMap ==
    /\ fstage = "xy"
    /\ fstage' = "q"
    /\ fq' = iso_map(fxy[1], fxy[2])
    /\ floc' = [fn |-> "iso_map", l |-> iso_map_locals(fxy[1], fxy[2])]
    /\ UNCHANGED <<fin, fmsg, fus, fu, fxy, fpt, fsgn, svars>>

FClearCofactor ==
    /\ fstage = "q"
    /\ fstage' = "p"
    /\ fpt' = clear_cofactor(fq)
    /\ UNCHANGED <<fin, fmsg, fus, fu, fxy, fq, fsgn, floc, svars>>

FNext ==
    \/ FFieldElem
    \/ FHashToField
    \/ FReturnU
    \/ FSgn0
    \/ FIsSquare
    \/ FSimpleSwu
    \/ FIsoMap
    \/ FClearCofactor

SpecField == FInit /\ [][FNext]_vars

(* ------------------------------------------------------------------ *)
(* The facade: Bls12381G1Sswu and its four methods, run by concurrent  *)
(* callers on one shared instance.  A call advances one statement of   *)
(* the source at a time.                                               *)
(* ------------------------------------------------------------------ *)

MaxCalls == 3

Callers == {"a", "b"}

Methods == {"encode_to_curve_xmd", "hash_to_curve_xmd",
            "encode_to_curve_xof", "hash_to_curve_xof"}

NoCall == [method |-> "none", msg |-> <<>>]

NoLoc == [u |-> <<>>, req |-> <<>>, q0 |-> INF, q1 |-> INF]

Pending == [ok |-> FALSE, val |-> <<>>, err |-> "pending"]

(* Bls12381G1Sswu::new / from: the instance holds the tag it is given *)
Init ==
    /\ dst \in DSTS
    /\ dst0 = dst
    /\ pc = [c \in Callers |-> "idle"]
    /\ call = [c \in Callers |-> NoCall]
    /\ loc = [c \in Callers |-> NoLoc]
    /\ steps = [c \in Callers |-> <<>>]
    /\ ret = [c \in Callers |-> Pending]
    /\ first = [k \in Methods \X Msgs |-> Pending]
    /\ ncalls = 0
    /\ FIdle

(* the first statement of a facade method: hash_to_field on (data, &self.dst),
   `?` returning its error, else the field elements go to `inner` *)
Enter(c, method, data, htf, inner, dst_after) ==
    /\ pc[c] = "idle"
    /\ ncalls < MaxCalls
    /\ ncalls' = ncalls + 1
    /\ call' = [call EXCEPT ![c] = [method |-> method, msg |-> data]]
    /\ steps' = [steps EXCEPT ![c] = <<"expand_message_" \o htf.requested[1][1]>>]
    /\ IF htf.res.ok
       THEN /\ loc' = [loc EXCEPT ![c] = [NoLoc EXCEPT !.u = htf.res.val,
                                                       !.req = htf.requested]]
            /\ pc' = [pc EXCEPT ![c] = inner]
            /\ ret' = ret
       ELSE /\ loc' = [loc EXCEPT ![c] = [NoLoc EXCEPT !.req = htf.requested]]
            /\ pc' = [pc EXCEPT ![c] = "return"]
            /\ ret' = [ret EXCEPT ![c] = Err(htf.res.err)]
    /\ dst' = dst_after
    /\ UNCHANGED <<dst0, first, fvars>>

encode_to_curve_xmd(c) ==
    \E data \in Msgs :
        Enter(c, "encode_to_curve_xmd", data, hash_to_field_xmd_nu(data, dst),
              "encode_to_curve", dst)

(* variant: the tag with its length suffix written back to self.dst *)
hash_to_curve_xmd_keeps_dst_prime(c) ==
    \E data \in Msgs :
        Enter(c, "hash_to_curve_xmd", data, hash_to_field_xmd_ro(data, dst),
              "hash_to_curve", IF Len(dst) > 255 THEN dst ELSE DST_prime(dst))

hash_to_curve_xmd(c) ==
    \E data \in Msgs :
        Enter(c, "hash_to_curve_xmd", data, hash_to_field_xmd_ro(data, dst),
              "hash_to_curve", dst)

encode_to_curve_xof(c) ==
    \E data \in Msgs :
        Enter(c, "encode_to_curve_xof", data, hash_to_field_xof_nu(data, dst),
              "encode_to_curve", dst)

hash_to_curve_xof(c) ==
    \E data \in Msgs :
        Enter(c, "hash_to_curve_xof", data, hash_to_field_xof_ro(data, dst),
              "hash_to_curve", dst)

(* one statement of encode_to_curve / hash_to_curve *)
Step(c, at, next, name, q0_, q1_, ret_) ==
    /\ pc[c] = at
    /\ pc' = [pc EXCEPT ![c] = next]
    /\ steps' = [steps EXCEPT ![c] = Append(@, name)]
    /\ loc' = [loc EXCEPT ![c].q0 = q0_, ![c].q1 = q1_]
    /\ ret' = [ret EXCEPT ![c] = ret_]
    /\ UNCHANGED <<dst, dst0, call, first, ncalls, fvars>>

(* variant: q added to itself *)
encode_to_curve_q_doubled(c) ==
    Step(c, "encode_to_curve", "encode_to_curve_clear", "map_to_curve",
         ECP_add(map_to_curve(loc[c].u[1]), map_to_curve(loc[c].u[1])),
         loc[c].q1, ret[c])

(* encode_to_curve: let q = map_to_curve(u) *)
encode_to_curve_q(c) ==
    Step(c, "encode_to_curve", "encode_to_curve_clear", "map_to_curve",
         map_to_curve(loc[c].u[1]), loc[c].q1, ret[c])

(* encode_to_curve: clear_cofactor(q) *)
encode_to_curve_clear(c) ==
    Step(c, "encode_to_curve_clear", "return", "clear_cofactor",
         loc[c].q0, loc[c].q1, Ok(clear_cofactor(loc[c].q0)))

(* hash_to_curve: let mut q0 = map_to_curve(u0) *)
hash_to_curve_q0(c) ==
    Step(c, "hash_to_curve", "hash_to_curve_q1", "map_to_curve",
         map_to_curve(loc[c].u[1]), loc[c].q1, ret[c])

(* variant: u0 mapped a second time *)
hash_to_curve_q1_maps_u0(c) ==
    Step(c, "hash_to_curve_q1", "hash_to_curve_add", "map_to_curve",
         loc[c].q0, map_to_curve(loc[c].u[1]), ret[c])

(* hash_to_curve: let q1 = map_to_curve(u1) *)
hash_to_curve_q1(c) ==
    Step(c, "hash_to_curve_q1", "hash_to_curve_add", "map_to_curve",
         loc[c].q0, map_to_curve(loc[c].u[2]), ret[c])

(* hash_to_curve: q0.add(&q1) *)
hash_to_curve_add(c) ==
    Step(c, "hash_to_curve_add", "hash_to_curve_clear", "add",
         ECP_add(loc[c].q0, loc[c].q1), loc[c].q1, ret[c])

(* hash_to_curve: clear_cofactor(q0) *)
hash_to_curve_clear(c) ==
    Step(c, "hash_to_curve_clear", "return", "clear_cofactor",
         loc[c].q0, loc[c].q1, Ok(clear_cofactor(loc[c].q0)))

(* the caller takes the result *)
Return(c) ==
    /\ pc[c] = "return"
    /\ first' = LET k == <<call[c].method, call[c].msg>>
                IN IF first[k] = Pending THEN [first EXCEPT ![k] = ret[c]] ELSE first
    /\ pc' = [pc EXCEPT ![c] = "idle"]
    /\ call' = [call EXCEPT ![c] = NoCall]
    /\ loc' = [loc EXCEPT ![c] = NoLoc]
    /\ steps' = [steps EXCEPT ![c] = <<>>]
    /\ ret' = [ret EXCEPT ![c] = Pending]
    /\ UNCHANGED <<dst, dst0, ncalls, fvars>>

Next ==
    \E c \in Callers :
        \/ encode_to_curve_xmd(c)
        \/ hash_to_curve_xmd(c)
        \/ encode_to_curve_xof(c)
        \/ hash_to_curve_xof(c)
        \/ encode_to_curve_q(c)
        \/ encode_to_curve_clear(c)
        \/ hash_to_curve_q0(c)
        \/ hash_to_curve_q1(c)
        \/ hash_to_curve_add(c)
        \/ hash_to_curve_clear(c)
        \/ Return(c)

Spec == Init /\ [][Next]_vars

(* ------------------------------------------------------------------ *)
(* Properties.  References are computed apart from the code's path:    *)
(* curve membership by the curve equation, polynomials by Horner's     *)
(* rule, OS2IP by its defining sum.                                    *)
(* ------------------------------------------------------------------ *)

OnE(x, y) == (y * y) % MODULUS = (x * x * x + CURVE_B) % MODULUS

OnEPrime(x, y) == (y * y) % MODULUS = (x * x * x + ISO_A * x + ISO_B) % MODULUS

InFp(x) == x \in 0..(MODULUS - 1)

RECURSIVE Horner(_, _, _)
Horner(k, x, i) ==
    IF i > Len(k) THEN 0 ELSE (k[i] + x * Horner(k, x, i + 1)) % MODULUS

PolyEval(k, x) == Horner(k, x, 1)

RECURSIVE OS2IP_from(_, _)
OS2IP_from(b, i) ==
    IF i > Len(b) THEN 0 ELSE b[i] * 256 ^ (Len(b) - i) + OS2IP_from(b, i + 1)

OS2IP(b) == OS2IP_from(b, 1)

HashMethods == {"hash_to_curve_xmd", "hash_to_curve_xof"}

EncodeMethods == {"encode_to_curve_xmd", "encode_to_curve_xof"}

KindOf(method) ==
    IF method \in {"encode_to_curve_xmd", "hash_to_curve_xmd"} THEN "xmd" ELSE "xof"

LenOf(method) == IF method \in HashMethods THEN TwoL ELSE L

(* the expansion a facade method asks for *)
ExpansionOf(method, data) ==
    IF KindOf(method) = "xmd" THEN expand_message_xmd(data, dst0, LenOf(method))
    ELSE expand_message_xof(data, dst0, LenOf(method))

(* the field elements of an expansion, by OS2IP mod p on each L bytes *)
ElementsOf(bytes) ==
    [i \in 1..(Len(bytes) \div L) |->
        OS2IP(SubSeq(bytes, (i - 1) * L + 1, i * L)) % MODULUS]

Returning(c) == pc[c] = "return"

PointOf(u) ==
    LET xy == map_to_curve_simple_swu(u) IN iso_map(xy[1], xy[2])

(* C1: whenever a hash_to_curve call (XMD or XOF) whose expansion succeeded
   is about to return, its value is
   clear_cofactor(iso_map(swu(u0)) + iso_map(swu(u1))) for the (u0, u1) of
   its message and tag, and the call ran exactly: the expansion, map_to_curve
   twice, one addition, then one clear_cofactor. *)
C1_HashToCurveComposition ==
    \A c \in Callers :
        (Returning(c) /\ call[c].method \in HashMethods
            /\ ExpansionOf(call[c].method, call[c].msg).ok) =>
        LET u == ElementsOf(ExpansionOf(call[c].method, call[c].msg).val)
        IN /\ ret[c] = Ok(clear_cofactor(ECP_add(PointOf(u[1]), PointOf(u[2]))))
           /\ steps[c] = <<"expand_message_" \o KindOf(call[c].method),
                           "map_to_curve", "map_to_curve", "add", "clear_cofactor">>

(* a hash_to_curve call returns whose two mapped points are equal, or one of
   them the identity, for two different field elements *)
C1_Witness ==
    \E c \in Callers :
        /\ Returning(c) /\ call[c].method \in HashMethods /\ ret[c].ok
        /\ loc[c].u[1] # loc[c].u[2]
        /\ \/ PointOf(loc[c].u[1]) = PointOf(loc[c].u[2])
           \/ PointOf(loc[c].u[1]).inf
           \/ PointOf(loc[c].u[2]).inf
        /\ ~ret[c].val.inf

(* C2: whenever an encode_to_curve call (XMD or XOF) whose expansion
   succeeded is about to return, its value is clear_cofactor(iso_map(swu(u)))
   for the one field element u of its message and tag; one element was
   mapped and no addition ran. *)
C2_EncodeToCurveComposition ==
    \A c \in Callers :
        (Returning(c) /\ call[c].method \in EncodeMethods
            /\ ExpansionOf(call[c].method, call[c].msg).ok) =>
        LET u == ElementsOf(ExpansionOf(call[c].method, call[c].msg).val)
        IN /\ Len(u) = 1
           /\ loc[c].u = u
           /\ ret[c] = Ok(clear_cofactor(PointOf(u[1])))
           /\ steps[c] = <<"expand_message_" \o KindOf(call[c].method),
                           "map_to_curve", "clear_cofactor">>
           /\ loc[c].q1 = INF

(* an encode_to_curve call returns a point other than the identity *)
C2_Witness ==
    \E c \in Callers :
        /\ Returning(c) /\ call[c].method \in EncodeMethods /\ ret[c].ok
        /\ ~ret[c].val.inf
        /\ ~loc[c].q0.inf

(* C4: map_to_curve_simple_swu is defined on every u of [0, p) and the pair
   it returns is reduced and satisfies y^2 = x^3 + ISO_A * x + ISO_B. *)
C4_SwuOnAuxiliaryCurve ==
    /\ fstage = "u" =>
        /\ InFp(fu)
        /\ LET xy == map_to_curve_simple_swu(fu) IN InFp(xy[1]) /\ InFp(xy[2])
    /\ fstage = "xy" =>
        /\ InFp(fxy[1]) /\ InFp(fxy[2])
        /\ OnEPrime(fxy[1], fxy[2])

(* the map has run on a non-zero u with tv1 + tv2 = 0 *)
C4_Witness ==
    /\ fstage = "xy"
    /\ fu # 0
    /\ LET tv1 == (Z * fu * fu) % MODULUS IN (tv1 + tv1 * tv1) % MODULUS = 0

(* C5 as stated: for every u, iso_map(swu(u)) is an affine point of E and
   X_DEN and Y_DEN are non-zero at the x' the map produced. *)
C5_AlwaysAffineOnE ==
    fstage = "q" =>
        /\ ~fq.inf
        /\ OnE(fq.x, fq.y)
        /\ PolyEval(X_DEN, fxy[1]) # 0
        /\ PolyEval(Y_DEN, fxy[1]) # 0

(* C5, amended: for every u, X_DEN and Y_DEN vanish at the same x'; where
   they vanish iso_map returns the identity of E, and everywhere else an
   affine point (x, y) with y^2 = x^3 + 4. *)
C5_OnEOrIdentity ==
    fstage = "q" =>
        LET xd == PolyEval(X_DEN, fxy[1])
            yd == PolyEval(Y_DEN, fxy[1])
        IN /\ (xd = 0) <=> (yd = 0)
           /\ fq.inf <=> (xd = 0)
           /\ ~fq.inf => InFp(fq.x) /\ InFp(fq.y) /\ OnE(fq.x, fq.y)

(* iso_map has run on a point of E' at which X_DEN vanishes *)
C5_Witness ==
    /\ fstage = "q"
    /\ PolyEval(X_DEN, fxy[1]) = 0
    /\ OnEPrime(fxy[1], fxy[2])

(* C6: the point a facade call returns is killed by the subgroup order. *)
C6_OutputInSubgroup ==
    \A c \in Callers :
        (Returning(c) /\ ret[c].ok) =>
            /\ ret[c].val.inf \/ OnE(ret[c].val.x, ret[c].val.y)
            /\ ECP_mul(ret[c].val, CURVE_ORDER) = INF

(* a hash_to_curve call returns a point other than the identity, and the sum
   it cleared was outside the subgroup *)
C6_Witness ==
    \E c \in Callers :
        /\ Returning(c) /\ call[c].method \in HashMethods /\ ret[c].ok
        /\ ~ret[c].val.inf
        /\ ECP_mul(loc[c].q0, CURVE_ORDER) # INF

(* C7: the instance's dst is the one it was built with, during and after
   every call; and a call about to return returns what the first completed
   call of the same method on the same message returned. *)
C7_DeterministicNoHiddenState ==
    /\ dst = dst0
    /\ \A c \in Callers :
        (Returning(c) /\ first[<<call[c].method, call[c].msg>>] # Pending) =>
            ret[c] = first[<<call[c].method, call[c].msg>>]

(* a repeated call returns a point while the other caller is inside a call
   of its own, other calls having completed in between *)
C7_Witness ==
    \E c, o \in Callers :
        /\ c # o
        /\ Returning(c) /\ ret[c].ok
        /\ first[<<call[c].method, call[c].msg>>] # Pending
        /\ pc[o] \notin {"idle", "return"}
        /\ call[o] # call[c]

(* C8: a call about to return returns Err exactly when its expansion is Err,
   and then that error, having run nothing but the expansion and holding no
   point; otherwise it returns Ok of a point, having run through
   clear_cofactor. *)
C8_ErrorsOnlyFromExpansion ==
    \A c \in Callers :
        Returning(c) =>
            LET e == ExpansionOf(call[c].method, call[c].msg)
            IN /\ ret[c].ok <=> e.ok
               /\ ~e.ok =>
                    /\ ret[c] = Err(e.err)
                    /\ steps[c] = <<"expand_message_" \o KindOf(call[c].method)>>
                    /\ loc[c].q0 = INF /\ loc[c].q1 = INF /\ loc[c].u = <<>>
               /\ e.ok =>
                    /\ ret[c].err = "none"
                    /\ ret[c].val.inf \in BOOLEAN
                    /\ steps[c][Len(steps[c])] = "clear_cofactor"

(* a call returns the error of its expansion *)
C8_Witness ==
    \E c \in Callers :
        /\ Returning(c)
        /\ ~ret[c].ok
        /\ ret[c].err = "InvalidDst"

(* C9 as stated: an input has the token of x exactly when it has the parity
   of x. *)
C9_Sgn0IsParity ==
    fstage = "sign" =>
        \A x \in 0..(MODULUS - 1) : (sgn0(x) = fsgn) <=> (x % 2 = fu % 2)

(* C9, amended: sgn0(x) is Less when x > (p - 1) / 2 and Greater otherwise;
   an input has the token of x exactly when it lies on the same side of
   (p - 1) / 2 as x. *)
C9_Sgn0IsHalfComparison ==
    fstage = "sign" =>
        /\ fsgn = (IF 2 * fu > MODULUS - 1 THEN "Less" ELSE "Greater")
        /\ \A x \in 0..(MODULUS - 1) :
            (sgn0(x) = fsgn) <=> ((2 * x > MODULUS - 1) <=> (2 * fu > MODULUS - 1))

(* sgn0 has run on (p - 1) / 2 *)
C9_Witness ==
    /\ fstage = "sign"
    /\ 2 * fu = MODULUS - 1
    /\ fsgn = "Greater"

(* C10: field_elem_from_larger_bytearray of L bytes is their big-endian value
   mod p, in [0, p); hash_to_field_nu asks for one expansion of L bytes and
   reduces it; hash_to_field_ro asks for one expansion of 2L bytes and
   returns the reduction of its first L bytes, then of its last L bytes. *)
C10_ByteToFieldReduction ==
    /\ fstage = "reduced" =>
        /\ fus = ElementsOf(fin)
        /\ \A i \in 1..Len(fus) : InFp(fus[i])
    /\ fstage = "hashed" =>
        LET kind == IF fin[3] \in {"xmd_nu", "xmd_ro"} THEN "xmd" ELSE "xof"
            n == IF fin[3] \in {"xmd_ro", "xof_ro"} THEN TwoL ELSE L
            e == IF kind = "xmd" THEN expand_message_xmd(fin[1], fin[2], n)
                 ELSE expand_message_xof(fin[1], fin[2], n)
        IN /\ fmsg.requested = <<<<kind, n>>>>
           /\ fmsg.res.ok <=> e.ok
           /\ e.ok => /\ Len(e.val) = n
                      /\ fmsg.res.val = ElementsOf(e.val)

(* hash_to_field_ro has run and its two elements differ *)
C10_Witness ==
    /\ fstage = "hashed"
    /\ fin[3] \in {"xmd_ro", "xof_ro"}
    /\ fmsg.res.ok
    /\ Len(fmsg.res.val) = 2
    /\ fmsg.res.val[1] # fmsg.res.val[2]

(* references for the map's arithmetic: powers by x^(2k) = (x^k)^2 and
   x^(2k+1) = x * x^(2k),
   the inverse by its defining equation, a polynomial as the sum of its
   monomials, a square by the existence of a root *)
RECURSIVE PowRef(_, _)
PowRef(x, n) ==
    IF n = 0 THEN 1
    ELSE IF n % 2 = 1 THEN (x * PowRef(x, n - 1)) % MODULUS
    ELSE LET h == PowRef(x, n \div 2) IN (h * h) % MODULUS

Inv0Ref(d) ==
    IF d % MODULUS = 0 THEN 0
    ELSE CHOOSE z \in 1..(MODULUS - 1) : (z * d) % MODULUS = 1

RECURSIVE PolySum(_, _, _)
PolySum(k, x, i) ==
    IF i > Len(k) THEN 0
    ELSE (PowRef(x, i - 1) * k[i] + PolySum(k, x, i + 1)) % MODULUS

IsoX(x_prime) ==
    (PolySum(X_NUM, x_prime, 1) * Inv0Ref(PolySum(X_DEN, x_prime, 1))) % MODULUS

IsoY(x_prime, y_prime) ==
    (((y_prime * PolySum(Y_NUM, x_prime, 1)) % MODULUS)
        * Inv0Ref(PolySum(Y_DEN, x_prime, 1))) % MODULUS

(* C11 as stated: iso_map(x', y') is the point (x, y) with
   x = X_NUM(x') * inv0(X_DEN(x')) and y = y' * Y_NUM(x') * inv0(Y_DEN(x')),
   each polynomial the sum of x'^i * K[i] over K's coefficients. *)
C11_IsoMapIsThePoint ==
    fstage = "q" => fq = Affine(IsoX(fxy[1]), IsoY(fxy[1], fxy[2]))

(* C11, amended: iso_map computes x = X_NUM(x') * inv0(X_DEN(x')) and
   y = y' * Y_NUM(x') * inv0(Y_DEN(x')), each polynomial the sum of
   x'^i * K[i] over the first len(K) of the monomials 1, x', ..., x'^15, and
   hands (x, y) to the point constructor: the result is the point (x, y)
   when (x, y) is on E, which it is whenever X_DEN(x') is not 0, and the
   identity when it is not, which is the case where X_DEN(x') = 0 and
   x = y = 0. *)
C11_IsoMapFormula ==
    fstage = "q" =>
        LET xr == IsoX(fxy[1])
            yr == IsoY(fxy[1], fxy[2])
            m == floc.l
        IN /\ floc.fn = "iso_map"
           /\ Len(m.x_values) = 16
           /\ \A i \in 1..16 : m.x_values[i] = PowRef(fxy[1], i - 1)
           /\ m.x_num = PolySum(X_NUM, fxy[1], 1)
           /\ m.x_den = PolySum(X_DEN, fxy[1], 1)
           /\ m.y_num = PolySum(Y_NUM, fxy[1], 1)
           /\ m.y_den = PolySum(Y_DEN, fxy[1], 1)
           /\ m.x = xr /\ m.y = yr
           /\ fq = (IF OnE(xr, yr) THEN Affine(xr, yr) ELSE INF)
           /\ m.x_den # 0 => fq = Affine(xr, yr)
           /\ m.x_den = 0 => xr = 0 /\ yr = 0 /\ fq = INF

(* iso_map has returned an affine point for an x' other than 0 and 1, with
   every table's last coefficient taking part *)
C11_Witness ==
    /\ fstage = "q"
    /\ ~fq.inf
    /\ fxy[1] \notin {0, 1}
    /\ fq = Affine(IsoX(fxy[1]), IsoY(fxy[1], fxy[2]))

SwuRan == fstage = "xy" /\ floc.fn = "map_to_curve_simple_swu"

Tv1Ref(u) == (Z * u * u) % MODULUS

TRef(u) == Inv0Ref(Tv1Ref(u) + Tv1Ref(u) * Tv1Ref(u))

(* C12: with t = inv0(tv1 + tv2), which is 0 when tv1 + tv2 = 0 mod p (as for
   u = 0), the candidate x1 is C2 * C1 mod p when t = 0 and (t + 1) * C1 mod p
   otherwise; e1 is the zero test of t itself, and the map returns a pair
   also where the inverted value is 0. *)
C12_ExceptionalCase ==
    SwuRan =>
        LET l == floc.l
            t == TRef(fu)
        IN /\ l.tv1 = Tv1Ref(fu)
           /\ l.tv2 = (Tv1Ref(fu) * Tv1Ref(fu)) % MODULUS
           /\ l.sum = (l.tv1 + l.tv2) % MODULUS
           /\ l.t = t
           /\ (l.sum = 0) => (t = 0)
           /\ (fu = 0) => (t = 0)
           /\ (l.e1 = 1) <=> (t = 0)
           /\ l.e1 \in {0, 1}
           /\ (t = 0) => l.x1 = (C2 * C1) % MODULUS
           /\ (t # 0) => l.x1 = ((t + 1) * C1) % MODULUS
           /\ InFp(fxy[1]) /\ InFp(fxy[2])

(* the map has run on a non-zero u whose tv1 + tv2 is 0, and x1 is C2 * C1 *)
C12_Witness ==
    /\ SwuRan
    /\ fu # 0
    /\ floc.l.sum = 0
    /\ floc.l.e1 = 1
    /\ floc.l.x1 = (C2 * C1) % MODULUS
    /\ floc.l.x1 # C1

HasRoot(v) == \E z \in 0..(MODULUS - 1) : (z * z) % MODULUS = v

(* C13: with gx1 = x1^3 + ISO_A * x1 + ISO_B, x2 = tv1 * x1 and
   gx2 = tv1^3 * gx1, the map returns x = x1 and roots gx1 when gx1 is a
   square, and otherwise returns x = x2 and roots gx2, which is then a
   square; the root is y2^((p+1)/4) and its square is y2. *)
C13_CandidateSelection ==
    SwuRan =>
        LET l == floc.l
            x1 == l.x1
            tv1 == Tv1Ref(fu)
            gx1 == (x1 * x1 * x1 + ISO_A * x1 + ISO_B) % MODULUS
            x2 == (tv1 * x1) % MODULUS
            gx2 == (((tv1 * tv1 * tv1) % MODULUS) * gx1) % MODULUS
        IN /\ l.gx1 = gx1 /\ l.x2 = x2 /\ l.gx2 = gx2
           /\ l.e2 = (IF is_square(gx1) THEN 1 ELSE 0)
           /\ HasRoot(gx1) => l.e2 = 1 /\ l.x = x1 /\ l.y2 = gx1
           /\ ~HasRoot(gx1) => l.e2 = 0 /\ l.x = x2 /\ l.y2 = gx2 /\ HasRoot(gx2)
           /\ l.y = PowRef(l.y2, (MODULUS + 1) \div 4)
           /\ (l.y * l.y) % MODULUS = l.y2
           /\ fxy[1] = l.x

(* the map has run where gx1 is not a square: x2 is returned, it differs
   from x1, and the root of gx2 is not 0 *)
C13_Witness ==
    /\ SwuRan
    /\ floc.l.e2 = 0
    /\ ~HasRoot(floc.l.gx1)
    /\ fxy[1] = floc.l.x2
    /\ floc.l.x2 # floc.l.x1
    /\ floc.l.y # 0

(* the side of (p - 1) / 2 a value lies on: what sgn0 tells apart *)
Upper(v) == 2 * v > MODULUS - 1

(* C14: with r the root of y2, the map returns y = r when sgn0(u) = sgn0(r)
   and y = -r mod p otherwise; for every u whose root is not 0 the returned
   y has the sgn0 of u. *)
C14_SignAgreement ==
    SwuRan =>
        LET r == floc.l.y
            y == fxy[2]
        IN /\ (floc.l.e3 = 1) <=> (Upper(fu) <=> Upper(r))
           /\ floc.l.e3 \in {0, 1}
           /\ (Upper(fu) <=> Upper(r)) => y = r
           /\ ~(Upper(fu) <=> Upper(r)) => y = (MODULUS - r) % MODULUS
           /\ r # 0 => /\ Upper(y) <=> Upper(fu)
                       /\ sgn0(y) = sgn0(fu)

(* the map has run where the root had the other sign, and returned -r *)
C14_Witness ==
    /\ SwuRan
    /\ floc.l.e3 = 0
    /\ floc.l.y # 0
    /\ fxy[2] = MODULUS - floc.l.y
    /\ sgn0(fxy[2]) = sgn0(fu)
    /\ sgn0(floc.l.y) # sgn0(fu)

(* C15: is_square(x) is true exactly when x^((p-1)/2) mod p is 0 or 1: true
   for 0 and for every non-zero quadratic residue, false for every
   non-residue, where the power is p - 1. *)
C15_IsSquareIsEuler ==
    (fstage = "square" /\ floc.fn = "is_square") =>
        LET e == PowRef(fu, (MODULUS - 1) \div 2)
            res == floc.l.res
        IN /\ res <=> (e \in {0, 1})
           /\ res <=> HasRoot(fu)
           /\ (fu = 0) => res
           /\ ~res => e = MODULUS - 1
           /\ e \in {0, 1, MODULUS - 1}

(* is_square has run on 0 and returned true *)
C15_Witness ==
    /\ fstage = "square"
    /\ fu = 0
    /\ floc.l.res
    /\ PowRef(fu, (MODULUS - 1) \div 2) = 0
====
